---- MODULE Spec2Model ----
(***************************************************************************)
(* The in-memory task store of backend/app/routes.py: the ordered dict     *)
(* _tasks, the id allocator _next_id and the five request handlers of the  *)
(* tasks blueprint.  In Spec every request is handled atomically (one       *)
(* action per handler) and the last request and its response are kept in   *)
(* resp.  In SpecConc two worker threads run the handlers line by line on  *)
(* the shared _tasks and _next_id, the Task objects living in heap.        *)
(***************************************************************************)
EXTENDS Integers, Sequences, FiniteSets, TLC

\* Ids are allocated while _next_id <= MaxId; the counter itself is unbounded in the code.
MaxId ==
  2

\* With two worker threads at most MaxCreates creates with a valid title are begun.
MaxCreates ==
  2

VARIABLES
  tasks,     \* _tasks: an insertion-ordered dict, a sequence of entries [k, v]
  next_id,   \* _next_id
  created,   \* history: the ids returned by the 201 responses, in order
  resp,      \* the last request (op, id, body) and its response (status, out)
  threads,   \* per worker thread: the request it runs, its position and its locals
  heap       \* the Task objects the worker threads made; a reference is an index

vars == <<tasks, next_id, created, resp, threads, heap>>

---------------------------------------------------------------------------
(* JSON values of a request body *)

Absent == [t |-> "absent"]
Null == [t |-> "null"]
JBool(b) == [t |-> "bool", b |-> b]
JNum(n) == [t |-> "num", n |-> n]
JStr(s) == [t |-> "str", s |-> s]

\* Python's None, as returned by dict.get for a missing key
None == Null

Whitespace == {" "}

\* The title strings a request may carry, as sequences of characters
Strings ==
  { <<>>, <<" ", " ">>, <<" ", "a", " ">>, <<"a", " ", "b">> }

TitleValues ==
  {Absent, Null, JNum(7)} \cup { JStr(s) : s \in Strings }

CompletedValues ==
  {Absent, Null, JBool(TRUE), JBool(FALSE), JStr(<<"n", "o">>)}

\* A body is absent/unparsable, a JSON array or a JSON object with optional fields
NoBody == [kind |-> "none"]
JArray(items) == [kind |-> "array", items |-> items]
JObject(title, completed) == [kind |-> "object", title |-> title, completed |-> completed]

Bodies ==
  {NoBody}
    \cup { JArray(a) : a \in {<<>>, <<"title">>, <<"completed">>, <<"x">>} }
    \cup { JObject(tv, cv) : tv \in TitleValues, cv \in CompletedValues }

\* The ids a URL may name: 0 is never allocated, the others may be
Ids == 0 .. MaxId

---------------------------------------------------------------------------
(* Python helpers used by the handlers *)

\* Truth value of a JSON value (Python truthiness)
Truthy(v) ==
  CASE v.t = "absent" -> FALSE
    [] v.t = "null" -> FALSE
    [] v.t = "bool" -> v.b
    [] v.t = "num" -> v.n # 0
    [] v.t = "str" -> v.s # <<>>

\* a variant of bool(x) that takes only the JSON value true for True
Bool_OnlyTrue(v) == v = JBool(TRUE)

\* bool(x)
Bool(v) == Truthy(v)

RECURSIVE LStrip(_)
LStrip(s) ==
  IF s = <<>> THEN s
  ELSE IF Head(s) \in Whitespace THEN LStrip(Tail(s)) ELSE s

RECURSIVE RStrip(_)
RStrip(s) ==
  IF s = <<>> THEN s
  ELSE IF s[Len(s)] \in Whitespace THEN RStrip(SubSeq(s, 1, Len(s) - 1)) ELSE s

\* a variant of strip that returns the string as it came
Strip_Identity(s) == s

\* a variant of strip that trims the leading whitespace only
Strip_LeftOnly(s) == LStrip(s)

\* str.strip()
Strip(s) == RStrip(LStrip(s))

\* request.get_json(silent=True) or {}
GetJson(body) ==
  IF body.kind = "none" \/ (body.kind = "array" /\ body.items = <<>>)
  THEN JObject(Absent, Absent)
  ELSE body

\* `key in data`
Contains(data, key) ==
  IF data.kind = "array" THEN \E i \in 1 .. Len(data.items) : data.items[i] = key
  ELSE IF key = "title" THEN data.title # Absent
  ELSE IF key = "completed" THEN data.completed # Absent
  ELSE FALSE

\* (data.get("title") or "").strip(): [ok, s]; ok is FALSE when the
\* expression raises AttributeError (data is a list, or the title is a
\* truthy value that is no string)
StripTitle(data) ==
  IF data.kind = "array" THEN [ok |-> FALSE, s |-> <<>>]
  ELSE LET raw == IF data.title = Absent THEN None ELSE data.title
           v == IF Truthy(raw) THEN raw ELSE JStr(<<>>)
       IN IF v.t = "str" THEN [ok |-> TRUE, s |-> Strip(v.s)]
          ELSE [ok |-> FALSE, s |-> <<>>]

---------------------------------------------------------------------------
(* The dict _tasks *)

Task(id, title, completed) == [id |-> id, title |-> title, completed |-> completed]

Has(d, k) == \E i \in 1 .. Len(d) : d[i].k = k

Keys(d) == [i \in 1 .. Len(d) |-> d[i].k]

\* _tasks.values()
Values(d) == [i \in 1 .. Len(d) |-> d[i].v]

\* _tasks.get(k)
DictGet(d, k) ==
  IF Has(d, k) THEN d[CHOOSE i \in 1 .. Len(d) : d[i].k = k].v ELSE None

\* task.title = ... / task.completed = ...: the Task stored under k takes the
\* fields v, the dict itself is untouched
SetAttrs(d, k, v) ==
  [i \in 1 .. Len(d) |-> IF d[i].k = k THEN [d[i] EXCEPT !.v = v] ELSE d[i]]

\* a variant of item assignment that moves an existing key to the end
DictSet_MoveToEnd(d, k, v) ==
  Append(SelectSeq(d, LAMBDA e : e.k # k), [k |-> k, v |-> v])

\* _tasks[k] = v: an existing key keeps its position, a new key goes last
DictSet(d, k, v) ==
  IF Has(d, k)
  THEN [i \in 1 .. Len(d) |-> IF d[i].k = k THEN [k |-> k, v |-> v] ELSE d[i]]
  ELSE Append(d, [k |-> k, v |-> v])

\* a variant of del that drops the newest entry, like popitem()
DictDel_Last(d, k) == SubSeq(d, 1, Len(d) - 1)

\* del _tasks[k]
DictDel(d, k) == SelectSeq(d, LAMBDA e : e.k # k)

\* a variant of _get_next_id that numbers a new task after the tasks now stored
GetNextId_FromSize ==
  [nid |-> Len(tasks) + 1, next |-> next_id + 1]

\* a variant of _get_next_id that increments before it reads
GetNextId_PreIncrement ==
  [nid |-> next_id + 1, next |-> next_id + 1]

\* _get_next_id(): the id returned and the counter afterwards
GetNextId ==
  [nid |-> next_id, next |-> next_id + 1]

---------------------------------------------------------------------------
(* The handlers *)

Respond(op, id, body, status, out) ==
  /\ resp' = [op |-> op, id |-> id, body |-> body, status |-> status, out |-> out]
  /\ UNCHANGED <<threads, heap>>

Init ==
  /\ tasks = <<>>
  /\ next_id = 1
  /\ created = <<>>
  /\ resp = [op |-> "init", id |-> 0, body |-> NoBody, status |-> 0, out |-> <<>>]
  /\ threads = <<>>
  /\ heap = <<>>

\* GET /tasks
list_tasks ==
  /\ Respond("list", 0, NoBody, 200, Values(tasks))
  /\ UNCHANGED <<tasks, next_id, created>>

\* a variant of create_task that takes the id before it validates the title
create_task_AllocFirst(body) ==
  LET data == GetJson(body)
      t == StripTitle(data)
      g == GetNextId
  IN IF ~t.ok \/ t.s = <<>>
     THEN /\ next_id <= MaxId
          /\ next_id' = g.next
          /\ Respond("create", 0, body, IF t.ok THEN 400 ELSE 500, <<>>)
          /\ UNCHANGED <<tasks, created>>
     ELSE LET task == Task(g.nid, t.s,
                           Bool(IF Contains(data, "completed") THEN data.completed
                                ELSE JBool(FALSE)))
          IN /\ next_id <= MaxId
             /\ next_id' = g.next
             /\ tasks' = DictSet(tasks, task.id, task)
             /\ created' = Append(created, task.id)
             /\ Respond("create", 0, body, 201, <<task>>)

\* POST /tasks
create_task(body) ==
  LET data == GetJson(body)
      t == StripTitle(data)
  IN IF ~t.ok
     THEN /\ Respond("create", 0, body, 500, <<>>)
          /\ UNCHANGED <<tasks, next_id, created>>
     ELSE IF t.s = <<>>
     THEN /\ Respond("create", 0, body, 400, <<>>)
          /\ UNCHANGED <<tasks, next_id, created>>
     ELSE LET g == GetNextId
              task == Task(g.nid, t.s,
                           Bool(IF Contains(data, "completed") THEN data.completed
                                ELSE JBool(FALSE)))
          IN /\ next_id <= MaxId
             /\ next_id' = g.next
             /\ tasks' = DictSet(tasks, task.id, task)
             /\ created' = Append(created, task.id)
             /\ Respond("create", 0, body, 201, <<task>>)

\* a variant of get_task that takes the task out of the dict, like _tasks.pop
get_task_Pop(task_id) ==
  LET task == DictGet(tasks, task_id)
  IN /\ IF task = None
        THEN Respond("get", task_id, NoBody, 404, <<>>)
        ELSE Respond("get", task_id, NoBody, 200, <<task>>)
     /\ tasks' = DictDel(tasks, task_id)
     /\ UNCHANGED <<next_id, created>>

\* GET /tasks/<id>
get_task(task_id) ==
  LET task == DictGet(tasks, task_id)
  IN /\ IF task = None
        THEN Respond("get", task_id, NoBody, 404, <<>>)
        ELSE Respond("get", task_id, NoBody, 200, <<task>>)
     /\ UNCHANGED <<tasks, next_id, created>>

\* a variant of lines 58-64 that assigns completed before it validates the title
update_fields_CompletedFirst(task, data) ==
  LET hasTitle == Contains(data, "title")
      t == StripTitle(data)
      t0 == IF data.kind = "object" /\ Contains(data, "completed")
            THEN [task EXCEPT !.completed = Bool(data.completed)]
            ELSE task
  IN IF hasTitle /\ ~t.ok THEN [status |-> 500, task |-> t0]
     ELSE IF hasTitle /\ t.s = <<>> THEN [status |-> 400, task |-> t0]
     ELSE IF Contains(data, "completed") /\ data.kind = "array"
     THEN [status |-> 500, task |-> t0]
     ELSE [status |-> 200,
           task |-> IF hasTitle THEN [t0 EXCEPT !.title = t.s] ELSE t0]

\* a variant of lines 58-64 that replaces the task: an omitted completed becomes False
update_fields_Replace(task, data) ==
  LET hasTitle == Contains(data, "title")
      t == StripTitle(data)
      t1 == IF hasTitle THEN [task EXCEPT !.title = t.s] ELSE task
  IN IF hasTitle /\ ~t.ok THEN [status |-> 500, task |-> task]
     ELSE IF hasTitle /\ t.s = <<>> THEN [status |-> 400, task |-> task]
     ELSE IF Contains(data, "completed")
     THEN IF data.kind = "array" THEN [status |-> 500, task |-> t1]
          ELSE [status |-> 200, task |-> [t1 EXCEPT !.completed = Bool(data.completed)]]
     ELSE [status |-> 200, task |-> [t1 EXCEPT !.completed = FALSE]]

\* Lines 58-64 of update_task on the Task object: the status reached and the
\* object's fields when the handler leaves (the object is the one in _tasks)
update_fields(task, data) ==
  LET hasTitle == Contains(data, "title")
      t == StripTitle(data)
      t1 == IF hasTitle THEN [task EXCEPT !.title = t.s] ELSE task
  IN IF hasTitle /\ ~t.ok THEN [status |-> 500, task |-> task]
     ELSE IF hasTitle /\ t.s = <<>> THEN [status |-> 400, task |-> task]
     ELSE IF Contains(data, "completed")
     THEN IF data.kind = "array" THEN [status |-> 500, task |-> t1]
          ELSE [status |-> 200, task |-> [t1 EXCEPT !.completed = Bool(data.completed)]]
     ELSE [status |-> 200, task |-> t1]

\* a variant of update_task that validates the body before it looks the task up
update_task_ValidateFirst(task_id, body) ==
  LET task == DictGet(tasks, task_id)
      probe == update_fields(Task(task_id, <<>>, FALSE), GetJson(body))
  IN IF probe.status # 200
     THEN /\ Respond("update", task_id, body, probe.status, <<>>)
          /\ UNCHANGED <<tasks, next_id, created>>
     ELSE IF task = None
     THEN /\ Respond("update", task_id, body, 404, <<>>)
          /\ UNCHANGED <<tasks, next_id, created>>
     ELSE LET r == update_fields(task, GetJson(body))
          IN /\ tasks' = DictSet(tasks, task_id, r.task)
             /\ Respond("update", task_id, body, 200, <<r.task>>)
             /\ UNCHANGED <<next_id, created>>

\* PUT/PATCH /tasks/<id>
update_task(task_id, body) ==
  LET task == DictGet(tasks, task_id)
  IN IF task = None
     THEN /\ Respond("update", task_id, body, 404, <<>>)
          /\ UNCHANGED <<tasks, next_id, created>>
     ELSE LET r == update_fields(task, GetJson(body))
              \* the assignments to task.title / task.completed act on the stored object
              mutated == SetAttrs(tasks, task_id, r.task)
          IN /\ tasks' = IF r.status = 200 THEN DictSet(mutated, task_id, r.task)
                         ELSE mutated
             /\ Respond("update", task_id, body, r.status,
                        IF r.status = 200 THEN <<r.task>> ELSE <<>>)
             /\ UNCHANGED <<next_id, created>>

\* DELETE /tasks/<id>
delete_task(task_id) ==
  IF ~Has(tasks, task_id)
  THEN /\ Respond("delete", task_id, NoBody, 404, <<>>)
       /\ UNCHANGED <<tasks, next_id, created>>
  ELSE /\ tasks' = DictDel(tasks, task_id)
       /\ Respond("delete", task_id, NoBody, 204, <<>>)
       /\ UNCHANGED <<next_id, created>>

Next ==
  \/ list_tasks
  \/ \E body \in Bodies : create_task(body)
  \/ \E task_id \in Ids : get_task(task_id)
  \/ \E task_id \in Ids, body \in Bodies : update_task(task_id, body)
  \/ \E task_id \in Ids : delete_task(task_id)

Spec == Init /\ [][Next]_vars

---------------------------------------------------------------------------
(* Two worker threads: the handlers line by line.  _tasks maps a key to a    *)
(* reference into heap; a thread switch may fall between any two accesses   *)
(* of _tasks, _next_id or a Task object.                                    *)

Threads == {1, 2}

\* The bodies and ids the concurrent requests carry
RaceBodies ==
  { JObject(JStr(<<" ", "a", " ">>), Absent),
    JObject(JStr(<<"a", " ", "b">>), JBool(TRUE)) }

\* the concurrent get, update and delete address the first task
RaceIds == {1}

\* the creates past their validation so far: the Task objects made and the
\* creates that are yet to make theirs
CreatesBegun ==
  Len(heap) + Cardinality({t \in Threads : threads[t].pc \in {"c22", "c23r", "c23w", "c38"}})

Idle ==
  [pc |-> "idle", op |-> "none", id |-> 0, body |-> NoBody, status |-> 0,
   out |-> <<>>, nid |-> 0, tmp |-> 0, task |-> 0]

\* thread t starts on a request at line pc
Begin(t, op, id, body, pc) ==
  threads' = [threads EXCEPT ![t] = [Idle EXCEPT !.pc = pc, !.op = op, !.id = id,
                                                 !.body = body]]

\* thread t goes on to line pc
Goto(t, pc) == threads' = [threads EXCEPT ![t].pc = pc]

\* thread t answers: return jsonify(...) / abort(...); its locals are gone,
\* the request line and the response stay on record
Answer(t, th, status, out) ==
  threads' = [threads EXCEPT ![t] = [Idle EXCEPT !.op = th.op, !.id = th.id,
                                                 !.status = status, !.out = out]]

InitConc ==
  /\ tasks = <<>>
  /\ next_id = 1
  /\ created = <<>>
  /\ resp = [op |-> "init", id |-> 0, body |-> NoBody, status |-> 0, out |-> <<>>]
  /\ threads = [t \in Threads |-> Idle]
  /\ heap = <<>>

\* create_task, lines 34-37: the body and the title, local to the thread
create_34(t, body) ==
  LET r == StripTitle(GetJson(body))
      th == [Idle EXCEPT !.op = "create", !.body = body]
  IN /\ threads[t].pc = "idle"
     /\ CreatesBegun < MaxCreates
     /\ IF ~r.ok THEN Answer(t, th, 500, <<>>)
        ELSE IF r.s = <<>> THEN Answer(t, th, 400, <<>>)
        ELSE Begin(t, "create", 0, body, "c22")
     /\ UNCHANGED <<tasks, next_id, created, resp, heap>>

\* a variant of line 22 that reads and increments in one step, as under a lock
get_next_id_22_Locked(t) ==
  /\ threads[t].pc = "c22"
  /\ threads' = [threads EXCEPT ![t].nid = next_id, ![t].pc = "c38"]
  /\ next_id' = next_id + 1
  /\ UNCHANGED <<tasks, created, resp, heap>>

\* _get_next_id, line 22: nid = _next_id
get_next_id_22(t) ==
  /\ threads[t].pc = "c22"
  /\ threads' = [threads EXCEPT ![t].nid = next_id, ![t].pc = "c23r"]
  /\ UNCHANGED <<tasks, next_id, created, resp, heap>>

\* _get_next_id, line 23: _next_id += 1, the load
get_next_id_23_load(t) ==
  /\ threads[t].pc = "c23r"
  /\ threads' = [threads EXCEPT ![t].tmp = next_id, ![t].pc = "c23w"]
  /\ UNCHANGED <<tasks, next_id, created, resp, heap>>

\* _get_next_id, line 23: _next_id += 1, the store
get_next_id_23_store(t) ==
  /\ threads[t].pc = "c23w"
  /\ next_id' = threads[t].tmp + 1
  /\ Goto(t, "c38")
  /\ UNCHANGED <<tasks, created, resp, heap>>

\* create_task, lines 38-39: the new Task object and _tasks[task.id] = task
create_39(t) ==
  LET th == threads[t]
      data == GetJson(th.body)
      task == Task(th.nid, StripTitle(data).s,
                   Bool(IF Contains(data, "completed") THEN data.completed
                        ELSE JBool(FALSE)))
      ref == Len(heap) + 1
  IN /\ th.pc = "c38"
     /\ heap' = Append(heap, task)
     /\ tasks' = DictSet(tasks, task.id, ref)
     /\ threads' = [threads EXCEPT ![t].task = ref, ![t].pc = "c40"]
     /\ UNCHANGED <<next_id, created, resp>>

\* create_task, line 40: return jsonify(asdict(task)), 201
create_40(t) ==
  LET th == threads[t]
  IN /\ th.pc = "c40"
     /\ Answer(t, th, 201, <<heap[th.task]>>)
     /\ created' = Append(created, heap[th.task].id)
     /\ UNCHANGED <<tasks, next_id, resp, heap>>

\* get_task, lines 45-47
get_45(t, task_id) ==
  LET th == [Idle EXCEPT !.op = "get", !.id = task_id]
  IN /\ threads[t].pc = "idle"
     /\ IF ~Has(tasks, task_id) THEN Answer(t, th, 404, <<>>)
        ELSE threads' = [threads EXCEPT ![t] =
                           [th EXCEPT !.pc = "g48", !.task = DictGet(tasks, task_id)]]
     /\ UNCHANGED <<tasks, next_id, created, resp, heap>>

\* get_task, line 48
get_48(t) ==
  LET th == threads[t]
  IN /\ th.pc = "g48"
     /\ Answer(t, th, 200, <<heap[th.task]>>)
     /\ UNCHANGED <<tasks, next_id, created, resp, heap>>

\* list_tasks, line 29, taken while no other request is in flight
list_29(t) ==
  LET th == [Idle EXCEPT !.op = "list"]
  IN /\ \A u \in Threads : threads[u].pc = "idle"
     /\ Answer(t, th, 200, [n \in 1 .. Len(tasks) |-> heap[tasks[n].v]])
     /\ UNCHANGED <<tasks, next_id, created, resp, heap>>

\* update_task, lines 54-57
update_54(t, task_id, body) ==
  LET th == [Idle EXCEPT !.op = "update", !.id = task_id, !.body = body]
  IN /\ threads[t].pc = "idle"
     /\ IF ~Has(tasks, task_id) THEN Answer(t, th, 404, <<>>)
        ELSE threads' = [threads EXCEPT ![t] =
                           [th EXCEPT !.pc = "u58", !.task = DictGet(tasks, task_id)]]
     /\ UNCHANGED <<tasks, next_id, created, resp, heap>>

\* update_task, lines 58-62
update_58(t) ==
  LET th == threads[t]
      data == GetJson(th.body)
      r == StripTitle(data)
  IN /\ th.pc = "u58"
     /\ IF ~Contains(data, "title")
        THEN Goto(t, "u63") /\ heap' = heap
        ELSE IF ~r.ok THEN Answer(t, th, 500, <<>>) /\ heap' = heap
        ELSE IF r.s = <<>> THEN Answer(t, th, 400, <<>>) /\ heap' = heap
        ELSE Goto(t, "u63") /\ heap' = [heap EXCEPT ![th.task].title = r.s]
     /\ UNCHANGED <<tasks, next_id, created, resp>>

\* update_task, lines 63-64
update_63(t) ==
  LET th == threads[t]
      data == GetJson(th.body)
  IN /\ th.pc = "u63"
     /\ IF ~Contains(data, "completed")
        THEN Goto(t, "u65") /\ heap' = heap
        ELSE IF data.kind = "array" THEN Answer(t, th, 500, <<>>) /\ heap' = heap
        ELSE /\ Goto(t, "u65")
             /\ heap' = [heap EXCEPT ![th.task].completed = Bool(data.completed)]
     /\ UNCHANGED <<tasks, next_id, created, resp>>

\* a variant of line 65 that writes back only while the key is still stored
update_65_IfStored(t) ==
  /\ threads[t].pc = "u65"
  /\ tasks' = IF Has(tasks, threads[t].id)
              THEN DictSet(tasks, threads[t].id, threads[t].task)
              ELSE tasks
  /\ Goto(t, "u66")
  /\ UNCHANGED <<next_id, created, resp, heap>>

\* update_task, line 65: _tasks[task_id] = task
update_65(t) ==
  /\ threads[t].pc = "u65"
  /\ tasks' = DictSet(tasks, threads[t].id, threads[t].task)
  /\ Goto(t, "u66")
  /\ UNCHANGED <<next_id, created, resp, heap>>

\* update_task, line 66
update_66(t) ==
  LET th == threads[t]
  IN /\ th.pc = "u66"
     /\ Answer(t, th, 200, <<heap[th.task]>>)
     /\ UNCHANGED <<tasks, next_id, created, resp, heap>>

\* delete_task, lines 71-72
delete_71(t, task_id) ==
  LET th == [Idle EXCEPT !.op = "delete", !.id = task_id]
  IN /\ threads[t].pc = "idle"
     /\ IF ~Has(tasks, task_id) THEN Answer(t, th, 404, <<>>)
        ELSE threads' = [threads EXCEPT ![t] = [th EXCEPT !.pc = "d73"]]
     /\ UNCHANGED <<tasks, next_id, created, resp, heap>>

\* delete_task, lines 73-74: del raises KeyError when the key has gone meanwhile
delete_73(t) ==
  LET th == threads[t]
  IN /\ th.pc = "d73"
     /\ IF Has(tasks, th.id)
        THEN Answer(t, th, 204, <<>>) /\ tasks' = DictDel(tasks, th.id)
        ELSE Answer(t, th, 500, <<>>) /\ tasks' = tasks
     /\ UNCHANGED <<next_id, created, resp, heap>>

NextConc ==
  \E t \in Threads :
    \/ \E body \in RaceBodies : create_34(t, body)
    \/ get_next_id_22(t)
    \/ get_next_id_23_load(t)
    \/ get_next_id_23_store(t)
    \/ create_39(t)
    \/ create_40(t)
    \/ \E task_id \in RaceIds : get_45(t, task_id)
    \/ get_48(t)
    \/ list_29(t)
    \/ \E task_id \in RaceIds, body \in RaceBodies : update_54(t, task_id, body)
    \/ update_58(t)
    \/ update_63(t)
    \/ update_65(t)
    \/ update_66(t)
    \/ \E task_id \in RaceIds : delete_71(t, task_id)
    \/ delete_73(t)

SpecConc == InitConc /\ [][NextConc]_vars

---------------------------------------------------------------------------
(* Vocabulary of the properties *)

\* i was returned by some successful create
Assigned(i) == \E j \in 1 .. Len(created) : created[j] = i

AllWhitespace(s) == \A i \in 1 .. Len(s) : s[i] \in Whitespace

\* t is s without its leading and trailing whitespace, t non-empty
IsTrimOf(t, s) ==
  \E i \in 1 .. Len(s), j \in 1 .. Len(s) :
    /\ i <= j
    /\ t = SubSeq(s, i, j)
    /\ s[i] \notin Whitespace
    /\ s[j] \notin Whitespace
    /\ \A k \in 1 .. Len(s) : (k < i \/ k > j) => s[k] \in Whitespace

\* the body carries a title that is null or a string trimming to empty
InvalidTitle(b) ==
  /\ b.kind = "object"
  /\ \/ b.title = Null
     \/ (b.title.t = "str" /\ AllWhitespace(b.title.s))

\* the body carries a string title that is non-empty after trimming
ValidTitle(b) ==
  /\ b.kind = "object"
  /\ b.title.t = "str"
  /\ ~AllWhitespace(b.title.s)

\* every task other than id is the same before and after the step
OthersUnchanged(id) ==
  \A k \in Ids : k # id =>
    /\ Has(tasks', k) <=> Has(tasks, k)
    /\ DictGet(tasks', k) = DictGet(tasks, k)

---------------------------------------------------------------------------
(* C1 *)

\* C1: the ids returned by successful creates are strictly increasing in
\* creation order, so no id is ever assigned twice, also after a delete; the
\* id of a 201 response is the latest of them.
C1_IdsStrictlyIncreasing ==
  /\ \A i, j \in 1 .. Len(created) : i < j => created[i] < created[j]
  /\ (resp.op = "create" /\ resp.status = 201) =>
       /\ created # <<>>
       /\ resp.out[1].id = created[Len(created)]

\* a create answered 201 after an earlier task had been deleted
C1_Witness ==
  /\ resp.op = "create"
  /\ resp.status = 201
  /\ Len(created) >= 2
  /\ ~Has(tasks, created[1])

---------------------------------------------------------------------------
(* C2 *)

\* C2: every stored title is non-empty and carries no leading or trailing
\* whitespace, whatever creates and updates, accepted or rejected, came before.
C2_TitlesTrimmedNonEmpty ==
  \A i \in 1 .. Len(tasks) :
    LET title == tasks[i].v.title
    IN /\ title # <<>>
       /\ Head(title) \notin Whitespace
       /\ title[Len(title)] \notin Whitespace

\* an update with a padded title was accepted and its title is stored
C2_Witness ==
  /\ resp.op = "update"
  /\ resp.status = 200
  /\ resp.body.kind = "object"
  /\ resp.body.title = JStr(<<" ", "a", " ">>)
  /\ DictGet(tasks, resp.id).title = <<"a">>

---------------------------------------------------------------------------
(* C3 *)

\* C3: an update of a stored task whose body has a title that is null or
\* trims to empty answers 400 and changes nothing: the task keeps its title
\* and its completed, also when the body has a completed that differs.
C3_InvalidTitleUpdateLeavesTask ==
  [][(resp'.op = "update" /\ Has(tasks, resp'.id) /\ InvalidTitle(resp'.body)) =>
       /\ resp'.status = 400
       /\ tasks' = tasks
       /\ next_id' = next_id]_vars

\* a rejected update whose body also carried a completed unlike the stored one
C3_Witness ==
  /\ resp.op = "update"
  /\ resp.status = 400
  /\ InvalidTitle(resp.body)
  /\ resp.body.completed.t = "bool"
  /\ Has(tasks, resp.id)
  /\ resp.body.completed.b # DictGet(tasks, resp.id).completed

---------------------------------------------------------------------------
(* C4 *)

\* C4: an update answered 200 changes only the fields its body has: without
\* a title the title stays, without a completed the completed stays, with
\* neither (an empty or unparsable body) both stay; the task's id and place,
\* every other task and the id counter are unchanged.
C4_UpdateChangesOnlyGivenFields ==
  [][(resp'.op = "update" /\ resp'.status = 200) =>
       LET id == resp'.id
           b == resp'.body
           old == DictGet(tasks, id)
           new == DictGet(tasks', id)
       IN /\ Has(tasks, id)
          /\ Has(tasks', id)
          /\ new.id = old.id
          /\ resp'.out = <<new>>
          /\ ~(b.kind = "object" /\ b.title # Absent) => new.title = old.title
          /\ ~(b.kind = "object" /\ b.completed # Absent) => new.completed = old.completed
          /\ OthersUnchanged(id)
          /\ Len(tasks') = Len(tasks)
          /\ next_id' = next_id]_vars

\* an update with only a title was accepted on a completed task
C4_Witness ==
  /\ resp.op = "update"
  /\ resp.status = 200
  /\ resp.body.kind = "object"
  /\ resp.body.title = JStr(<<"a", " ", "b">>)
  /\ resp.body.completed = Absent
  /\ resp.out[1].completed = TRUE
  /\ Len(tasks) = 2

---------------------------------------------------------------------------
(* C5 *)

\* C5: a get, an update with any body, or a delete of an id that is no key
\* of the store answers 404 and leaves the store and the id counter as they
\* were; for update the lookup comes before the body is validated.
C5_UnknownIdIs404 ==
  [][(resp'.op \in {"get", "update", "delete"} /\ ~Has(tasks, resp'.id)) =>
       /\ resp'.status = 404
       /\ tasks' = tasks
       /\ next_id' = next_id]_vars

\* an update with an invalid title was answered 404 for a deleted id, other tasks stored
C5_Witness ==
  /\ resp.op = "update"
  /\ resp.status = 404
  /\ InvalidTitle(resp.body)
  /\ Assigned(resp.id)
  /\ tasks # <<>>

---------------------------------------------------------------------------
(* C6 *)

\* C6: a delete answered 204 removes exactly the task of that id and leaves
\* the other tasks and the id counter alone, and the removal is permanent:
\* an id that was assigned and is no longer stored is not stored after any
\* later request, get, update and delete of it answer 404, and no list
\* contains it.
C6_DeleteIsPermanent ==
  [][/\ (resp'.op = "delete" /\ resp'.status = 204) =>
          /\ Has(tasks, resp'.id)
          /\ ~Has(tasks', resp'.id)
          /\ Len(tasks') = Len(tasks) - 1
          /\ OthersUnchanged(resp'.id)
          /\ next_id' = next_id
     /\ \A i \in Ids : (Assigned(i) /\ ~Has(tasks, i)) =>
          /\ ~Has(tasks', i)
          /\ (resp'.op \in {"get", "update", "delete"} /\ resp'.id = i) => resp'.status = 404
          /\ resp'.op = "list" => \A n \in 1 .. Len(resp'.out) : resp'.out[n].id # i]_vars

\* a list answered after the first task was deleted and a later one created
C6_Witness ==
  /\ resp.op = "list"
  /\ Len(created) >= 2
  /\ ~Has(tasks, created[1])
  /\ Has(tasks, created[2])
  /\ Len(resp.out) = Len(tasks)

---------------------------------------------------------------------------
(* C7 *)

\* C7: a create whose body is absent or unparsable, or has no title, a null
\* title or a title that is empty or only whitespace, answers 400 and stores
\* nothing: the store is the same after the request as before.
C7_CreateWithoutTitleIs400 ==
  [][(/\ resp'.op = "create"
      /\ \/ resp'.body.kind = "none"
         \/ InvalidTitle(resp'.body)
         \/ (resp'.body.kind = "object" /\ resp'.body.title = Absent)) =>
       /\ resp'.status = 400
       /\ tasks' = tasks
       /\ created' = created]_vars

\* a create with a whitespace-only title and completed true was rejected
C7_Witness ==
  /\ resp.op = "create"
  /\ resp.status = 400
  /\ resp.body.kind = "object"
  /\ resp.body.title = JStr(<<" ", " ">>)
  /\ resp.body.completed = JBool(TRUE)
  /\ tasks # <<>>

---------------------------------------------------------------------------
(* C8 *)

\* what a create with a valid title does, but for the value of completed:
\* 201, one new task under a fresh id with the trimmed title, returned as
\* stored, the tasks stored before unchanged
C8_StoresOneTask ==
  LET new == resp'.out[1]
  IN /\ resp'.status = 201
     /\ Len(resp'.out) = 1
     /\ ~Has(tasks, new.id)
     /\ Len(tasks') = Len(tasks) + 1
     /\ DictGet(tasks', new.id) = new
     /\ IsTrimOf(new.title, resp'.body.title.s)
     /\ OthersUnchanged(new.id)

\* the truth value of a supplied completed: a JSON boolean is itself, null,
\* zero and the empty string are false, every other value is true
C8_TruthValue(v) ==
  CASE v.t = "bool" -> v.b
    [] v.t = "null" -> FALSE
    [] v.t = "num" -> v.n # 0
    [] v.t = "str" -> Len(v.s) > 0

\* C8 as stated: a create with a title that is non-empty after trimming
\* stores one new task with the trimmed title whose completed is the supplied
\* value, or false when none is supplied.
C8_CompletedIsSuppliedValue ==
  [][(resp'.op = "create" /\ ValidTitle(resp'.body)) =>
       /\ C8_StoresOneTask
       /\ JBool(resp'.out[1].completed) =
            (IF resp'.body.completed = Absent THEN JBool(FALSE)
             ELSE resp'.body.completed)]_vars

\* C8 as amended: the stored completed is the supplied value when that is a
\* JSON boolean, the truth value of any other supplied value, and false when
\* none is supplied; the rest as stated.
C8_CompletedIsTruthValue ==
  [][(resp'.op = "create" /\ ValidTitle(resp'.body)) =>
       /\ C8_StoresOneTask
       /\ resp'.out[1].completed =
            (IF resp'.body.completed = Absent THEN FALSE
             ELSE C8_TruthValue(resp'.body.completed))]_vars

\* a second task was created from a padded title and a completed that is a string
C8_Witness ==
  /\ resp.op = "create"
  /\ resp.status = 201
  /\ resp.body.title = JStr(<<" ", "a", " ">>)
  /\ resp.body.completed.t = "str"
  /\ resp.out[1] = Task(2, <<"a">>, TRUE)
  /\ Len(tasks) = 2

---------------------------------------------------------------------------
(* C9 *)

---------------------------------------------------------------------------
(* C10 *)

\* C10: get and list change neither the store nor the id counter, and so do
\* the requests answered 400 or 404; a get answered 200 returns the stored
\* task of that id; and what is stored under an id, hence what get returns
\* for it, changes only by an update of that id answered 200 or a delete of
\* it answered 204.
C10_ReadsArePure ==
  [][/\ (resp'.op \in {"get", "list"} \/ resp'.status \in {400, 404}) =>
          /\ tasks' = tasks
          /\ next_id' = next_id
     /\ (resp'.op = "get" /\ resp'.status = 200) =>
          /\ resp'.out = <<DictGet(tasks, resp'.id)>>
          /\ resp'.out[1].id = resp'.id
     /\ \A i \in Ids :
          (/\ Has(tasks, i)
           /\ ~(resp'.op = "update" /\ resp'.id = i /\ resp'.status = 200)
           /\ ~(resp'.op = "delete" /\ resp'.id = i /\ resp'.status = 204)) =>
            DictGet(tasks', i) = DictGet(tasks, i)]_vars

\* a get of the older of two stored tasks was answered with the stored task
C10_Witness ==
  /\ resp.op = "get"
  /\ resp.status = 200
  /\ Len(tasks) = 2
  /\ resp.id = created[1]
  /\ resp.out = <<DictGet(tasks, resp.id)>>

---------------------------------------------------------------------------
(* C12 *)

\* C12: from the fresh store the n-th successful create returns id n: a
\* create answered 201 returns the old counter and advances it by exactly
\* one, and every other request (a rejected create, get, list, update,
\* delete, any 404) leaves the counter as it was.
C12_NthCreateReturnsN ==
  [][/\ (resp'.op = "create" /\ resp'.status = 201) =>
          /\ Len(created') = Len(created) + 1
          /\ resp'.out[1].id = Len(created')
          /\ created'[Len(created')] = Len(created')
          /\ next_id' = next_id + 1
     /\ ~(resp'.op = "create" /\ resp'.status = 201) =>
          /\ next_id' = next_id
          /\ created' = created
     /\ next_id' = Len(created') + 1]_vars

\* the second successful create, after a rejected create and a delete of task 1
C12_Witness ==
  /\ resp.op = "create"
  /\ resp.status = 201
  /\ resp.out[1].id = 2
  /\ created = <<1, 2>>
  /\ Keys(tasks) = <<2>>

---------------------------------------------------------------------------
(* C13 *)

\* C13: after every request each key k of the store maps to a task whose id
\* is k, with 1 <= k < _next_id, and a completed that is TRUE or FALSE; a
\* task that stays stored keeps its id.
C13_KeysAreIds ==
  [][/\ \A n \in 1 .. Len(tasks') :
          /\ tasks'[n].v.id = tasks'[n].k
          /\ 1 <= tasks'[n].k
          /\ tasks'[n].k < next_id'
          /\ \/ tasks'[n].v.completed = TRUE
             \/ tasks'[n].v.completed = FALSE
     /\ \A k \in Ids : (Has(tasks, k) /\ Has(tasks', k)) =>
          DictGet(tasks', k).id = DictGet(tasks, k).id]_vars

\* two tasks are stored and the older was just updated with a completed that is a string
C13_Witness ==
  /\ resp.op = "update"
  /\ resp.status = 200
  /\ resp.body.kind = "object"
  /\ resp.body.completed.t = "str"
  /\ Keys(tasks) = <<1, 2>>
  /\ resp.id = 1
  /\ DictGet(tasks, 1).completed = TRUE

---------------------------------------------------------------------------
(* C11 *)

\* thread record th is a create answered 201
Created201(th) == th.pc = "idle" /\ th.op = "create" /\ th.status = 201

\* C11: without a lock the read of _next_id at line 22 leaves the counter as
\* it is (the increment is a later step), so a second create may read the
\* same value; and when two creates have answered 201 with the same id, two
\* Task objects carry that id while the store holds exactly one entry for it.
C11_CreateRaceSharesId ==
  [][/\ \A t \in Threads :
          (threads[t].pc = "c22" /\ threads'[t].pc # "c22") =>
            /\ threads'[t].nid = next_id
            /\ next_id' = next_id
     /\ \A t, u \in Threads :
          (/\ t # u
           /\ Created201(threads'[t])
           /\ Created201(threads'[u])
           /\ threads'[t].out[1].id = threads'[u].out[1].id) =>
            LET i == threads'[t].out[1].id
            IN /\ Cardinality({n \in 1 .. Len(tasks') : tasks'[n].k = i}) = 1
               /\ Cardinality({r \in 1 .. Len(heap') : heap'[r].id = i}) >= 2]_vars

\* both creates have answered 201 with id 1 and the store holds one task
C11_Witness ==
  /\ \A t \in Threads : Created201(threads[t]) /\ threads[t].out[1].id = 1
  /\ created = <<1, 1>>
  /\ Keys(tasks) = <<1>>
  /\ Len(heap) = 2

---------------------------------------------------------------------------
(* C14 *)

\* C14: the write-back of update_task at line 65 stores the task under its
\* id whether or not the key is still there: when a delete removed it after
\* the update read it, the write-back puts the updater's object back (as the
\* newest entry); a get of a stored id then answers 200 and a list contains
\* every stored id.
C14_WriteBackUndoesDelete ==
  [][/\ \A t \in Threads :
          (threads[t].pc = "u65" /\ threads'[t].pc = "u66") =>
            /\ Has(tasks', threads[t].id)
            /\ DictGet(tasks', threads[t].id) = threads[t].task
            /\ ~Has(tasks, threads[t].id) =>
                 tasks' = Append(tasks, [k |-> threads[t].id, v |-> threads[t].task])
     /\ \A t \in Threads :
          (threads[t].pc = "idle" /\ threads'[t] # threads[t] /\ threads'[t].op = "get") =>
            IF Has(tasks, threads'[t].id)
            THEN threads'[t].pc = "g48"
            ELSE threads'[t].pc = "idle" /\ threads'[t].status = 404
     /\ \A t \in Threads :
          (threads[t].pc = "g48" /\ threads'[t].pc = "idle") =>
            /\ threads'[t].status = 200
            /\ threads'[t].out = <<heap[threads[t].task]>>
     /\ \A t \in Threads :
          (threads'[t] # threads[t] /\ threads'[t].op = "list") =>
            /\ threads'[t].status = 200
            /\ [n \in 1 .. Len(threads'[t].out) |-> threads'[t].out[n].id]
                 = [n \in 1 .. Len(tasks) |-> heap[tasks[n].v].id]]_vars

\* an update of task 1 has answered 200, a delete of task 1 has answered 204,
\* and task 1 is in the store
C14_Witness ==
  \E t, u \in Threads :
    /\ threads[t].pc = "idle" /\ threads[t].op = "update"
    /\ threads[t].id = 1 /\ threads[t].status = 200
    /\ threads[u].pc = "idle" /\ threads[u].op = "delete"
    /\ threads[u].id = 1 /\ threads[u].status = 204
    /\ Has(tasks, 1)
    /\ heap[DictGet(tasks, 1)] = threads[t].out[1]

====
